---- MODULE Spec2Model ----
(***************************************************************************)
(* The two-pass Hack assembler of 06_assembler/assembler.py.               *)
(*                                                                         *)
(* A Python str is a sequence of one-character strings.  A Python list of  *)
(* str is held run-length encoded: <<[s |-> x, n |-> k], ...>> stands for  *)
(* k consecutive copies of x, adjacent runs differ; ListLen, ListAt and    *)
(* ListAppend are len(), indexing and list.append on that representation.  *)
(* A text (the assembly source, the returned .hack text) is the list of    *)
(* its physical lines, each with its "\n" terminator when it has one       *)
(* (str.splitlines(keepends=True)); the text is their concatenation.       *)
(* Texts are over ASCII letters, digits, punctuation, blank, tab and "\n",  *)
(* so "\n" is the only line boundary and blank and tab the only whitespace  *)
(* inside a line.                                                          *)
(***************************************************************************)
EXTENDS Integers, Sequences, FiniteSets, TLC

VARIABLES
  asm_text,          \* the source text every call of assemble_text is given
  heap,              \* dict objects: reference -> (name -> address)
  symbol_table,      \* assemble_text: the reference held by symbol_table
  cleaned,           \* assemble_text: clean_lines(asm_text)
  i,                 \* first_pass: 1-based position of the next line of cleaned
  rom_address,       \* first_pass: rom_address
  no_labels,         \* first_pass: out, then assemble_text: no_labels
  j,                 \* second_pass: 1-based position of the next line of no_labels
  next_var_address,  \* second_pass: next_var_address
  binary_lines,      \* second_pass: out, then assemble_text: binary_lines
  pc,                \* "idle", "first_pass" or "second_pass"
  calls,             \* number of calls of assemble_text that have ended
  first,             \* outcome of the first call of assemble_text
  last               \* outcome of the most recent call of assemble_text

vars == <<asm_text, heap, symbol_table, cleaned, i, rom_address, no_labels, j,
          next_var_address, binary_lines, pc, calls, first, last>>

-----------------------------------------------------------------------------
\* Bounds of the explored inputs.

\* longest source text of the small input family, in physical lines
MaxLines == 3

\* calls of assemble_text on the same text in one process
MaxCalls == 2

\* length of the run of compute instructions in the long input family
LongRun == 32767

-----------------------------------------------------------------------------
\* Characters and strings.

NL == "\n"

DigitChars == <<"0", "1", "2", "3", "4", "5", "6", "7", "8", "9">>

\* the whitespace str.strip() removes, within the model's alphabet
Whitespace == {" ", "\t"}

Min(S) == CHOOSE x \in S : \A y \in S : x <= y
Max(S) == CHOOSE x \in S : \A y \in S : x >= y

\* s.strip()
strip(s) ==
  LET keep == {k \in 1..Len(s) : s[k] \notin Whitespace}
  IN  IF keep = {} THEN <<>> ELSE SubSeq(s, Min(keep), Max(keep))

\* c in s, for a one-character c
Contains(s, c) == \E k \in 1..Len(s) : s[k] = c

\* s.split(c, 1) for a one-character c that occurs in s
SplitOnce(s, c) ==
  LET k == Min({x \in 1..Len(s) : s[x] = c})
  IN  <<SubSeq(s, 1, k - 1), SubSeq(s, k + 1, Len(s))>>

\* raw.split("//", 1)[0]
before_comment(raw) ==
  LET at == {k \in 1..(Len(raw) - 1) : raw[k] = "/" /\ raw[k + 1] = "/"}
  IN  IF at = {} THEN raw ELSE SubSeq(raw, 1, Min(at) - 1)

\* s.isdigit(), for ASCII text
isdigit(s) == s # <<>> /\ \A k \in 1..Len(s) : \E d \in 1..10 : DigitChars[d] = s[k]

DigitValue(c) == (CHOOSE d \in 1..10 : DigitChars[d] = c) - 1

\* int(s, 10) for a string of decimal digits
RECURSIVE int10(_)
int10(s) ==
  IF s = <<>> THEN 0
  ELSE 10 * int10(SubSeq(s, 1, Len(s) - 1)) + DigitValue(s[Len(s)])

\* str(n) / f"{n}" for n >= 0
RECURSIVE Dec(_)
Dec(n) ==
  IF n < 10 THEN <<DigitChars[n + 1]>>
  ELSE Dec(n \div 10) \o <<DigitChars[(n % 10) + 1]>>

\* format(n, "b") for n >= 0
RECURSIVE Bin(_)
Bin(n) ==
  IF n < 2 THEN <<DigitChars[n + 1]>>
  ELSE Bin(n \div 2) \o <<DigitChars[(n % 2) + 1]>>

\* format(n, "016b"): binary, zero-padded on the left to at least 16 characters
format_016b(n) ==
  LET b == Bin(n)
  IN  IF Len(b) >= 16 THEN b ELSE [k \in 1..(16 - Len(b)) |-> "0"] \o b

-----------------------------------------------------------------------------
\* Lists of strings (run-length encoded) and dicts.

RECURSIVE ListLen(_)
ListLen(L) == IF L = <<>> THEN 0 ELSE L[1].n + ListLen(Tail(L))

\* L[k - 1] in Python's 0-based indexing
RECURSIVE ListAt(_, _)
ListAt(L, k) == IF k <= L[1].n THEN L[1].s ELSE ListAt(Tail(L), k - L[1].n)

\* n times L.append(x)
ListAppendRun(L, x, n) ==
  IF n = 0 THEN L
  ELSE IF L # <<>> /\ L[Len(L)].s = x THEN [L EXCEPT ![Len(L)].n = @ + n]
  ELSE Append(L, [s |-> x, n |-> n])

\* L.append(x)
ListAppend(L, x) == ListAppendRun(L, x, 1)

\* L without its last element
ListInit(L) ==
  IF L[Len(L)].n = 1 THEN SubSeq(L, 1, Len(L) - 1)
  ELSE [L EXCEPT ![Len(L)].n = @ - 1]

\* d[k] = v on a dict
DictSet(d, k, v) == [x \in DOMAIN d \cup {k} |-> IF x = k THEN v ELSE d[x]]

-----------------------------------------------------------------------------
\* Hack spec tables.

\* f"R{i}" for i in range(16)
RegisterNames == {<<"R">> \o Dec(r) : r \in 0..15}

PREDEFINED_SYMBOLS ==
     <<"S", "P">> :> 0 @@ <<"L", "C", "L">> :> 1 @@ <<"A", "R", "G">> :> 2
  @@ <<"T", "H", "I", "S">> :> 3 @@ <<"T", "H", "A", "T">> :> 4
  @@ <<"S", "C", "R", "E", "E", "N">> :> 16384 @@ <<"K", "B", "D">> :> 24576
  @@ [name \in RegisterNames |-> CHOOSE r \in 0..15 : name = <<"R">> \o Dec(r)]

\* DEST_TABLE, JUMP_TABLE, COMP_TABLE: mnemonic -> bit code.
DEST_TABLE ==
     <<>> :> <<"0", "0", "0">> @@ <<"M">> :> <<"0", "0", "1">>
  @@ <<"D">> :> <<"0", "1", "0">> @@ <<"M", "D">> :> <<"0", "1", "1">>
  @@ <<"A">> :> <<"1", "0", "0">> @@ <<"A", "M">> :> <<"1", "0", "1">>
  @@ <<"A", "D">> :> <<"1", "1", "0">> @@ <<"A", "M", "D">> :> <<"1", "1", "1">>

JUMP_TABLE ==
     <<>> :> <<"0", "0", "0">> @@ <<"J", "G", "T">> :> <<"0", "0", "1">>
  @@ <<"J", "E", "Q">> :> <<"0", "1", "0">> @@ <<"J", "G", "E">> :> <<"0", "1", "1">>
  @@ <<"J", "L", "T">> :> <<"1", "0", "0">> @@ <<"J", "N", "E">> :> <<"1", "0", "1">>
  @@ <<"J", "L", "E">> :> <<"1", "1", "0">> @@ <<"J", "M", "P">> :> <<"1", "1", "1">>

COMP_TABLE ==
     <<"0">> :> <<"0", "1", "0", "1", "0", "1", "0">>
  @@ <<"1">> :> <<"0", "1", "1", "1", "1", "1", "1">>
  @@ <<"-", "1">> :> <<"0", "1", "1", "1", "0", "1", "0">>
  @@ <<"D">> :> <<"0", "0", "0", "1", "1", "0", "0">>
  @@ <<"A">> :> <<"0", "1", "1", "0", "0", "0", "0">>
  @@ <<"!", "D">> :> <<"0", "0", "0", "1", "1", "0", "1">>
  @@ <<"!", "A">> :> <<"0", "1", "1", "0", "0", "0", "1">>
  @@ <<"-", "D">> :> <<"0", "0", "0", "1", "1", "1", "1">>
  @@ <<"-", "A">> :> <<"0", "1", "1", "0", "0", "1", "1">>
  @@ <<"D", "+", "1">> :> <<"0", "0", "1", "1", "1", "1", "1">>
  @@ <<"A", "+", "1">> :> <<"0", "1", "1", "0", "1", "1", "1">>
  @@ <<"D", "-", "1">> :> <<"0", "0", "0", "1", "1", "1", "0">>
  @@ <<"A", "-", "1">> :> <<"0", "1", "1", "0", "0", "1", "0">>
  @@ <<"D", "+", "A">> :> <<"0", "0", "0", "0", "0", "1", "0">>
  @@ <<"D", "-", "A">> :> <<"0", "0", "1", "0", "0", "1", "1">>
  @@ <<"A", "-", "D">> :> <<"0", "0", "0", "0", "1", "1", "1">>
  @@ <<"D", "&", "A">> :> <<"0", "0", "0", "0", "0", "0", "0">>
  @@ <<"D", "|", "A">> :> <<"0", "0", "1", "0", "1", "0", "1">>
  @@ <<"M">> :> <<"1", "1", "1", "0", "0", "0", "0">>
  @@ <<"!", "M">> :> <<"1", "1", "1", "0", "0", "0", "1">>
  @@ <<"-", "M">> :> <<"1", "1", "1", "0", "0", "1", "1">>
  @@ <<"M", "+", "1">> :> <<"1", "1", "1", "0", "1", "1", "1">>
  @@ <<"M", "-", "1">> :> <<"1", "1", "1", "0", "0", "1", "0">>
  @@ <<"D", "+", "M">> :> <<"1", "0", "0", "0", "0", "1", "0">>
  @@ <<"D", "-", "M">> :> <<"1", "0", "1", "0", "0", "1", "1">>
  @@ <<"M", "-", "D">> :> <<"1", "0", "0", "0", "1", "1", "1">>
  @@ <<"D", "&", "M">> :> <<"1", "0", "0", "0", "0", "0", "0">>
  @@ <<"D", "|", "M">> :> <<"1", "0", "1", "0", "1", "0", "1">>

-----------------------------------------------------------------------------
\* Helpers.

\* text.splitlines(): the physical lines without their terminators
splitlines(text) ==
  LET bare(c) == IF c # <<>> /\ c[Len(c)] = NL THEN SubSeq(c, 1, Len(c) - 1) ELSE c
      F[k \in 0..Len(text)] ==
        IF k = 0 THEN <<>> ELSE ListAppendRun(F[k - 1], bare(text[k].s), text[k].n)
  IN  F[Len(text)]

\* clean_lines: the loop body keeps no state, so a run of equal raw lines is
\* cleaned once and appended as often as it occurs
clean_lines(text) ==
  LET raws == splitlines(text)
      line(k) == strip(before_comment(raws[k].s))
      out[k \in 0..Len(raws)] ==
        IF k = 0 THEN <<>>
        ELSE IF line(k) = <<>> THEN out[k - 1]
        ELSE ListAppendRun(out[k - 1], line(k), raws[k].n)
  IN  out[Len(raws)]

is_label(line) == Len(line) >= 1 /\ line[1] = "(" /\ line[Len(line)] = ")"

\* line[1:-1].strip()
label_name(line) == strip(SubSeq(line, 2, Len(line) - 1))

\* variant: the range check admits every 16-bit value
to_16bit_wide(n) ==
  IF ~(0 <= n /\ n <= 65535)
  THEN [raised |-> TRUE, value |-> Dec(n)]
  ELSE [raised |-> FALSE, value |-> format_016b(n)]

\* variant: no range check
to_16bit_unchecked(n) == [raised |-> FALSE, value |-> format_016b(n)]

\* to_16bit: raised with the offending number for the message, or the string
to_16bit(n) ==
  IF ~(0 <= n /\ n <= 32767)
  THEN [raised |-> TRUE, value |-> Dec(n)]
  ELSE [raised |-> FALSE, value |-> format_016b(n)]

parse_c_instruction(line) ==
  LET hasEq == Contains(line, "=")
      dest  == IF hasEq THEN strip(SplitOnce(line, "=")[1]) ELSE <<>>
      comp1 == IF hasEq THEN strip(SplitOnce(line, "=")[2]) ELSE line
      hasSc == Contains(comp1, ";")
      comp  == IF hasSc THEN strip(SplitOnce(comp1, ";")[1]) ELSE comp1
      jump  == IF hasSc THEN strip(SplitOnce(comp1, ";")[2]) ELSE <<>>
  IN  [dest |-> dest, comp |-> comp, jump |-> jump]

\* "\n".join(lines), for lines that are non-empty and hold no "\n"
join(lines) ==
  IF lines = <<>> THEN <<>>
  ELSE LET init == ListInit(lines)
           ended == [k \in 1..Len(init) |-> [s |-> init[k].s \o <<NL>>, n |-> init[k].n]]
       IN  ListAppend(ended, lines[Len(lines)].s)

\* variant: no trailing separator is appended
plus_newline_absent(text) == text

\* text + "\n"
plus_newline(text) ==
  IF text # <<>> /\ text[Len(text)].s[Len(text[Len(text)].s)] # NL
  THEN ListAppend(ListInit(text), text[Len(text)].s \o <<NL>>)
  ELSE ListAppend(text, <<NL>>)

-----------------------------------------------------------------------------
\* Outcomes of a call of assemble_text, and dict references.

NoOutcome == [ok |-> FALSE, error |-> "", args |-> <<>>, text |-> <<>>]
Returned(text) == [ok |-> TRUE, error |-> "", args |-> <<>>, text |-> text]
ValueError(msg, args) == [ok |-> FALSE, error |-> msg, args |-> args, text |-> <<>>]

EmptyLabelMsg   == "Empty label () is not allowed"
DuplicateMsg    == "Label redefined"
EmptyAddressMsg == "Invalid A-instruction: '@' with no symbol/value"
RangeMsg        == "A-instruction value out of range (0..32767)"
InvalidDestMsg  == "Invalid dest"
InvalidJumpMsg  == "Invalid jump"
InvalidCompMsg  == "Invalid comp"

\* the module-level dict PREDEFINED_SYMBOLS
GLOBAL == "PREDEFINED_SYMBOLS"

\* variant: symbol_table = PREDEFINED_SYMBOLS, no copy is made
AliasDict(src) == src

\* dict(src) makes a new object; this is its reference
NewDict(src) == "symbol_table"

\* the call ends: its outcome reaches the caller
Finish(outcome) ==
  /\ pc' = "idle"
  /\ calls' = calls + 1
  /\ last' = outcome
  /\ first' = IF first = NoOutcome THEN outcome ELSE first

\* raise ValueError(...) propagates out of assemble_text
Raise(msg, args) == Finish(ValueError(msg, args))

-----------------------------------------------------------------------------
\* assemble_text, one action per step.

\* lines 209-212 up to the first iteration of first_pass's loop
assemble_text_begin ==
  /\ pc = "idle"
  /\ calls < MaxCalls
  /\ LET ref == NewDict(GLOBAL)
     IN  /\ symbol_table' = ref
         /\ heap' = [r \in DOMAIN heap \cup {ref} |->
                       IF r = ref THEN heap[GLOBAL] ELSE heap[r]]
  /\ cleaned' = clean_lines(asm_text)
  /\ i' = 1
  /\ rom_address' = 0
  /\ no_labels' = <<>>
  /\ j' = 1
  /\ next_var_address' = 16
  /\ binary_lines' = <<>>
  /\ pc' = "first_pass"
  /\ UNCHANGED <<asm_text, calls, first, last>>

\* variant: the redefinition check is missing, the entry is overwritten
first_pass_label_overwrite(name) ==
  IF name = <<>>
  THEN Raise(EmptyLabelMsg, <<>>) /\ UNCHANGED <<heap, i>>
  ELSE /\ heap' = [heap EXCEPT ![symbol_table] = DictSet(@, name, rom_address)]
       /\ i' = i + 1
       /\ UNCHANGED <<pc, calls, first, last>>

\* first_pass, a label line: lines 151-158
first_pass_label(name) ==
  IF name = <<>>
  THEN Raise(EmptyLabelMsg, <<>>) /\ UNCHANGED <<heap, i>>
  ELSE IF name \in DOMAIN heap[symbol_table]
  THEN Raise(DuplicateMsg, <<name>>) /\ UNCHANGED <<heap, i>>
  ELSE /\ heap' = [heap EXCEPT ![symbol_table] = DictSet(@, name, rom_address)]
       /\ i' = i + 1
       /\ UNCHANGED <<pc, calls, first, last>>

\* variant: rom_address is not advanced
first_pass_instruction_uncounted(line) ==
  /\ no_labels' = ListAppend(no_labels, line)
  /\ rom_address' = rom_address
  /\ i' = i + 1

\* first_pass, any other line: lines 160-161
first_pass_instruction(line) ==
  /\ no_labels' = ListAppend(no_labels, line)
  /\ rom_address' = rom_address + 1
  /\ i' = i + 1

\* the lines of cleaned are exhausted
first_pass_exhausted == i > ListLen(cleaned)

\* one iteration of first_pass's loop
first_pass_step ==
  /\ pc = "first_pass"
  /\ ~first_pass_exhausted
  /\ LET line == ListAt(cleaned, i)
     IN  IF is_label(line)
         THEN first_pass_label(label_name(line)) /\ UNCHANGED <<rom_address, no_labels>>
         ELSE first_pass_instruction(line) /\ UNCHANGED <<heap, pc, calls, first, last>>
  /\ UNCHANGED <<asm_text, symbol_table, cleaned, j, next_var_address, binary_lines>>

\* first_pass returns out; second_pass starts (lines 163, 213, 170-171)
first_pass_return ==
  /\ pc = "first_pass"
  /\ first_pass_exhausted
  /\ pc' = "second_pass"
  /\ j' = 1
  /\ next_var_address' = 16
  /\ binary_lines' = <<>>
  /\ UNCHANGED <<asm_text, heap, symbol_table, cleaned, i, rom_address, no_labels,
                 calls, first, last>>

\* out.append(to_16bit(value)): to_16bit raises or its string is appended
second_pass_emit(r) ==
  IF r.raised
  THEN Raise(RangeMsg, <<r.value>>) /\ UNCHANGED <<binary_lines, j>>
  ELSE /\ binary_lines' = ListAppend(binary_lines, r.value)
       /\ j' = j + 1
       /\ UNCHANGED <<pc, calls, first, last>>

\* second_pass, a numeric constant: lines 180-183
second_pass_numeric(sym) ==
  /\ second_pass_emit(to_16bit(int10(sym)))
  /\ UNCHANGED <<heap, next_var_address>>

\* variant: next_var_address is not advanced after a binding
second_pass_symbol_no_advance(sym) ==
  LET table == heap[symbol_table]
      known == sym \in DOMAIN table
      bound == IF known THEN table ELSE DictSet(table, sym, next_var_address)
  IN  /\ heap' = [heap EXCEPT ![symbol_table] = bound]
      /\ next_var_address' = next_var_address
      /\ second_pass_emit(to_16bit(bound[sym]))

\* variant: the lookup consults PREDEFINED_SYMBOLS, so labels are bound anew
second_pass_symbol_predefined_only(sym) ==
  LET table == heap[symbol_table]
      known == sym \in DOMAIN PREDEFINED_SYMBOLS
      bound == IF known THEN table ELSE DictSet(table, sym, next_var_address)
  IN  /\ heap' = [heap EXCEPT ![symbol_table] = bound]
      /\ next_var_address' = IF known THEN next_var_address ELSE next_var_address + 1
      /\ second_pass_emit(to_16bit(bound[sym]))

\* variant: every reference binds the symbol, present or not
second_pass_symbol_rebind(sym) ==
  LET bound == DictSet(heap[symbol_table], sym, next_var_address)
  IN  /\ heap' = [heap EXCEPT ![symbol_table] = bound]
      /\ next_var_address' = next_var_address + 1
      /\ second_pass_emit(to_16bit(bound[sym]))

\* second_pass, a symbol: lines 186-191
second_pass_symbol(sym) ==
  LET table == heap[symbol_table]
      known == sym \in DOMAIN table
      bound == IF known THEN table ELSE DictSet(table, sym, next_var_address)
  IN  /\ heap' = [heap EXCEPT ![symbol_table] = bound]
      /\ next_var_address' = IF known THEN next_var_address ELSE next_var_address + 1
      /\ second_pass_emit(to_16bit(bound[sym]))

\* variant: the jump bits are placed before the destination bits
bin_line_swapped(dest, comp, jump) ==
  <<"1", "1", "1">> \o COMP_TABLE[comp] \o JUMP_TABLE[jump] \o DEST_TABLE[dest]

\* "111" + COMP_TABLE[comp] + DEST_TABLE[dest] + JUMP_TABLE[jump]
bin_line(dest, comp, jump) ==
  <<"1", "1", "1">> \o COMP_TABLE[comp] \o DEST_TABLE[dest] \o JUMP_TABLE[jump]

\* second_pass, a C-instruction: lines 194-204
second_pass_c(line) ==
  LET p == parse_c_instruction(line)
  IN  IF p.dest \notin DOMAIN DEST_TABLE
      THEN Raise(InvalidDestMsg, <<p.dest, line>>) /\ UNCHANGED <<binary_lines, j>>
      ELSE IF p.jump \notin DOMAIN JUMP_TABLE
      THEN Raise(InvalidJumpMsg, <<p.jump, line>>) /\ UNCHANGED <<binary_lines, j>>
      ELSE IF p.comp \notin DOMAIN COMP_TABLE
      THEN Raise(InvalidCompMsg, <<p.comp, line>>) /\ UNCHANGED <<binary_lines, j>>
      ELSE /\ binary_lines' = ListAppend(binary_lines, bin_line(p.dest, p.comp, p.jump))
           /\ j' = j + 1
           /\ UNCHANGED <<pc, calls, first, last>>

\* the lines of no_labels are exhausted
second_pass_exhausted == j > ListLen(no_labels)

\* one iteration of second_pass's loop
second_pass_step ==
  /\ pc = "second_pass"
  /\ ~second_pass_exhausted
  /\ LET line == ListAt(no_labels, j)
         sym  == strip(Tail(line))
     IN  IF line[1] = "@"
         THEN IF sym = <<>>
              THEN /\ Raise(EmptyAddressMsg, <<>>)
                   /\ UNCHANGED <<heap, next_var_address, binary_lines, j>>
              ELSE IF isdigit(sym) THEN second_pass_numeric(sym)
              ELSE second_pass_symbol(sym)
         ELSE second_pass_c(line) /\ UNCHANGED <<heap, next_var_address>>
  /\ UNCHANGED <<asm_text, symbol_table, cleaned, i, rom_address, no_labels>>

\* second_pass returns; line 215 builds the text and assemble_text returns it
assemble_text_return ==
  /\ pc = "second_pass"
  /\ second_pass_exhausted
  /\ Finish(Returned(plus_newline(join(binary_lines))))
  /\ UNCHANGED <<asm_text, heap, symbol_table, cleaned, i, rom_address, no_labels, j,
                 next_var_address, binary_lines>>

Next ==
  \/ assemble_text_begin
  \/ first_pass_step
  \/ first_pass_return
  \/ second_pass_step
  \/ assemble_text_return

-----------------------------------------------------------------------------
\* Source texts.

\* the text whose physical lines are the strings of the sequence raws
TextOf(raws) ==
  LET F[k \in 0..Len(raws)] ==
        IF k = 0 THEN <<>> ELSE ListAppend(F[k - 1], raws[k] \o <<NL>>)
  IN  F[Len(raws)]

SeqsUpTo(S, n) == UNION {[1..k -> S] : k \in 0..n}

\* raw lines of the small input family
RawLines ==
  { <<"(", "L", ")">>,
    <<" ", "(", " ", "L", " ", ")", " ", "/", "/", "x">>,
    <<"(", "7", ")">>,
    <<"(", "S", "P", ")">>,
    <<"(", " ", ")">>,
    <<"@", "L">>,
    <<"@", "a">>,
    <<"@", " ", "b">>,
    <<"@", "S", "P">>,
    <<"@", "7">>,
    <<"D", "=", "A">>,
    <<"/", "/", "x">> }

SmallTexts == {TextOf(raws) : raws \in SeqsUpTo(RawLines, MaxLines)}

InitWith(texts) ==
  /\ asm_text \in texts
  /\ heap = (GLOBAL :> PREDEFINED_SYMBOLS)
  /\ symbol_table = "none"
  /\ cleaned = <<>>
  /\ i = 1
  /\ rom_address = 0
  /\ no_labels = <<>>
  /\ j = 1
  /\ next_var_address = 16
  /\ binary_lines = <<>>
  /\ pc = "idle"
  /\ calls = 0
  /\ first = NoOutcome
  /\ last = NoOutcome

Init == InitWith(SmallTexts)

Spec == Init /\ [][Next]_vars

\* raw lines of the encoding input family: literals, compute instructions and
\* every kind of malformed line
EncLines ==
  { <<"(", "7", ")">>,
    <<"(", " ", ")">>,
    <<"@", "7">>,
    <<"@", "3", "2", "7", "6", "7">>,
    <<"@", "3", "2", "7", "6", "8">>,
    <<"@">>,
    <<"@", "a">>,
    <<"D", "=", "A">>,
    <<"M", "D", " ", "=", " ", "D", "+", "1", " ", ";", " ", "J", "G", "T">>,
    <<"X", "=", "D">>,
    <<"D", "=", "Q">>,
    <<"D", ";", "J", "X", "X">> }

\* dest=comp;jump written in the shortest form the grammar allows
CLine(dest, comp, jump) ==
  (IF dest = <<>> THEN <<>> ELSE dest \o <<"=">>) \o comp
    \o (IF jump = <<>> THEN <<>> ELSE <<";">> \o jump)

\* one text per valid compute instruction
CTexts ==
  { TextOf(<<CLine(d, c, jm)>>) :
      d \in DOMAIN DEST_TABLE, c \in DOMAIN COMP_TABLE, jm \in DOMAIN JUMP_TABLE }

EncTexts == {TextOf(raws) : raws \in SeqsUpTo(EncLines, MaxLines)} \cup CTexts

InitEnc == InitWith(EncTexts)

SpecEnc == InitEnc /\ [][Next]_vars

\* texts with a run of LongRun compute instructions, the label END and a
\* reference to it
LongLine == <<"D", "=", "A", NL>>
EndLabel == <<"(", "E", "N", "D", ")", NL>>
EndRef   == <<"@", "E", "N", "D", NL>>
VarRef   == <<"@", "v", NL>>

LongTexts ==
  { ListAppend(ListAppend(ListAppendRun(<<>>, LongLine, LongRun), EndLabel), EndRef),
    ListAppend(ListAppend(ListAppend(ListAppendRun(<<>>, LongLine, LongRun), VarRef),
                          EndLabel), EndRef),
    ListAppend(ListAppendRun(ListAppend(<<>>, EndRef), LongLine, LongRun + 1), EndLabel) }

InitLong == InitWith(LongTexts)

SpecLong == InitLong /\ [][Next]_vars

-----------------------------------------------------------------------------
\* Vocabulary of the properties.

\* value of a string of binary digits
RECURSIVE BinValue(_)
BinValue(b) ==
  IF b = <<>> THEN 0
  ELSE 2 * BinValue(SubSeq(b, 1, Len(b) - 1)) + (IF b[Len(b)] = "1" THEN 1 ELSE 0)

IsBits16(b) == Len(b) = 16 /\ \A k \in 1..16 : b[k] \in {"0", "1"}

\* the dict the running call works on
Table == heap[symbol_table]

IsARef(line) == line[1] = "@"
Operand(line) == strip(Tail(line))
IsSymbolRef(line) == IsARef(line) /\ Operand(line) # <<>> /\ ~isdigit(Operand(line))
IsLiteralRef(line) == IsARef(line) /\ isdigit(Operand(line))

\* positions of cleaned that hold a label line / any other line
LabelPositions == {p \in 1..ListLen(cleaned) : is_label(ListAt(cleaned, p))}
InstrPositions == {p \in 1..ListLen(cleaned) : ~is_label(ListAt(cleaned, p))}
LabelAt(p) == label_name(ListAt(cleaned, p))

\* number of non-label lines before position p of cleaned
InstrBefore(p) == Cardinality({q \in InstrPositions : q < p})

\* position in cleaned of the k-th line of no_labels
InstrPosition(k) == CHOOSE q \in InstrPositions : InstrBefore(q) = k - 1

\* lines of no_labels that have been translated
Translated == 1..ListLen(binary_lines)
Sym(k) == Operand(ListAt(no_labels, k))
IsSymAt(k) == IsSymbolRef(ListAt(no_labels, k))

\* names in the symbol table when second_pass starts
BaseNames == DOMAIN PREDEFINED_SYMBOLS \cup {LabelAt(p) : p \in LabelPositions}

\* translated references to a symbol that was absent when second_pass started
IsVarAt(k) == IsSymAt(k) /\ Sym(k) \notin BaseNames

\* the first reference to the symbol referenced at k
FirstRefOf(k) == Min({q \in 1..k : IsSymAt(q) /\ Sym(q) = Sym(k)})

\* first references to new symbols among the lines 1..n of no_labels
NewSymbolRefs(n) == {k \in 1..n : IsVarAt(k) /\ FirstRefOf(k) = k}

\* the line the loop of first_pass / second_pass is about to process
FirstPassLine == ListAt(cleaned, i)
SecondPassLine == ListAt(no_labels, j)
InFirstPass == pc = "first_pass" /\ ~first_pass_exhausted
InSecondPass == pc = "second_pass" /\ ~second_pass_exhausted

-----------------------------------------------------------------------------
\* C1: once first_pass has returned, every label's address is the number of
\* non-label lines before its line; consecutive labels share that address,
\* which is the 0-based index in no_labels of the first instruction after them,
\* or len(no_labels) for trailing labels.  no_labels is cleaned without its
\* label lines.
C1_LabelAddresses ==
  pc = "second_pass" =>
    /\ ListLen(no_labels) = Cardinality(InstrPositions)
    /\ \A p \in InstrPositions :
         ListAt(no_labels, InstrBefore(p) + 1) = ListAt(cleaned, p)
    /\ \A p \in LabelPositions :
         LET addr  == Table[LabelAt(p)]
             later == {q \in InstrPositions : q > p}
         IN  /\ addr = InstrBefore(p)
             /\ IF later = {} THEN addr = ListLen(no_labels)
                ELSE ListAt(no_labels, addr + 1) = ListAt(cleaned, Min(later))
             /\ (p + 1 \in LabelPositions => Table[LabelAt(p + 1)] = addr)

\* two consecutive labels after at least one instruction
C1_Witness ==
  /\ pc = "second_pass"
  /\ \E p \in LabelPositions :
       /\ p + 1 \in LabelPositions
       /\ InstrBefore(p) >= 1
       /\ Table[LabelAt(p)] = Table[LabelAt(p + 1)]

\* C2: the k-th distinct non-numeric symbol absent from the table at its first
\* reference is bound to 16 + (k - 1), in order of first appearance; every
\* reference to it emits that address; next_var_address is 16 plus the number
\* of such symbols seen, so no other reference advances it.
C2_VariableAllocation ==
  pc = "second_pass" =>
    /\ next_var_address = 16 + Cardinality(NewSymbolRefs(j - 1))
    /\ \A k \in Translated :
         IsVarAt(k) =>
           LET addr == 16 + Cardinality(NewSymbolRefs(FirstRefOf(k))) - 1
           IN  /\ Table[Sym(k)] = addr
               /\ IsBits16(ListAt(binary_lines, k))
               /\ BinValue(ListAt(binary_lines, k)) = addr

\* @a, @b, @a: the third line reuses the first line's 16, b has 17
C2_Witness ==
  /\ pc = "second_pass"
  /\ \E k1, k2, k3 \in Translated :
       /\ k1 < k2 /\ k2 < k3
       /\ IsVarAt(k1) /\ IsVarAt(k2) /\ IsVarAt(k3)
       /\ Sym(k1) = Sym(k3) /\ Sym(k1) # Sym(k2)
       /\ Table[Sym(k2)] = 17
       /\ BinValue(ListAt(binary_lines, k3)) = 16
       /\ next_var_address = 18

\* C3: second_pass runs only when first_pass has processed every line, so every
\* label is in the table with its first_pass address; a reference to a label
\* name emits that address wherever the label is defined, and only symbols
\* that are neither predefined nor labels have consumed a variable address.
C3_ForwardLabels ==
  pc = "second_pass" =>
    /\ i > ListLen(cleaned)
    /\ \A p \in LabelPositions :
         LabelAt(p) \in DOMAIN Table /\ Table[LabelAt(p)] = InstrBefore(p)
    /\ \A k \in Translated : \A p \in LabelPositions :
         IsSymAt(k) /\ Sym(k) = LabelAt(p) =>
           /\ IsBits16(ListAt(binary_lines, k))
           /\ BinValue(ListAt(binary_lines, k)) = InstrBefore(p)
    /\ next_var_address =
         16 + Cardinality({Sym(k) : k \in {q \in Translated : IsSymAt(q)}} \ BaseNames)

\* a reference translated to a label defined further down, at an address > 0
C3_Witness ==
  /\ pc = "second_pass"
  /\ \E k \in Translated : \E p \in LabelPositions :
       /\ IsSymAt(k)
       /\ Sym(k) = LabelAt(p)
       /\ InstrPosition(k) < p
       /\ InstrBefore(p) >= 1
       /\ BinValue(ListAt(binary_lines, k)) = InstrBefore(p)
       /\ next_var_address = 16

\* C4: a label line whose trimmed name is in the table when first_pass reaches
\* it ends the run with the redefinition error and leaves the table as it
\* was; a label line whose trimmed name is empty ends it with the empty-label
\* error.
C4_LabelErrors ==
  [][ (InFirstPass /\ is_label(FirstPassLine)) =>
        LET name == label_name(FirstPassLine)
        IN  /\ name = <<>> =>
                 /\ pc' = "idle"
                 /\ last' = ValueError(EmptyLabelMsg, <<>>)
                 /\ heap' = heap
            /\ (name # <<>> /\ name \in DOMAIN Table) =>
                 /\ pc' = "idle"
                 /\ last' = ValueError(DuplicateMsg, <<name>>)
                 /\ heap' = heap ]_vars

\* (L), an instruction, then ( L ): the run failed and L kept address 0
C4_Witness ==
  /\ pc = "idle"
  /\ last = ValueError(DuplicateMsg, << <<"L">> >>)
  /\ FirstPassLine = <<"(", " ", "L", " ", ")">>
  /\ rom_address = 1
  /\ Table[<<"L">>] = 0

\* every translated reference to a predefined name emitted its fixed address,
\* and the table holds every predefined name at its fixed address
PredefinedFixed ==
  pc # "idle" =>
    /\ \A name \in DOMAIN PREDEFINED_SYMBOLS :
         name \in DOMAIN Table /\ Table[name] = PREDEFINED_SYMBOLS[name]
    /\ \A k \in Translated :
         IsSymAt(k) /\ Sym(k) \in DOMAIN PREDEFINED_SYMBOLS =>
           BinValue(ListAt(binary_lines, k)) = PREDEFINED_SYMBOLS[Sym(k)]

\* C5: within a run no step changes the address of a name that is in the
\* table; predefined names keep their fixed addresses through both passes and
\* a reference to one emits exactly that address.
C5_NoRebinding ==
  [][ /\ pc # "idle" =>
           \A name \in DOMAIN Table :
             name \in DOMAIN heap'[symbol_table] /\ heap'[symbol_table][name] = Table[name]
      /\ PredefinedFixed ]_vars

\* a run with a label and a variable of its own that translated @SP
C5_Witness ==
  /\ pc = "second_pass"
  /\ <<"L">> \in DOMAIN Table
  /\ <<"a">> \in DOMAIN Table
  /\ \E k \in Translated :
       /\ Sym(k) = <<"S", "P">>
       /\ ListAt(binary_lines, k) = format_016b(0)

\* C10: a second call on the same text ends as the first did; each call
\* starts from a copy of the predefined symbols and the module-level table is
\* never changed.
C10_Repeatable ==
  /\ heap[GLOBAL] = PREDEFINED_SYMBOLS
  /\ (pc = "first_pass" /\ i = 1) => Table = PREDEFINED_SYMBOLS
  /\ (pc = "idle" /\ calls >= 2) => last = first

\* the second call returned, after binding a label and a variable
C10_Witness ==
  /\ pc = "idle"
  /\ calls = 2
  /\ last.ok
  /\ last = first
  /\ <<"L">> \in DOMAIN Table
  /\ <<"a">> \in DOMAIN Table

\* C6: an address instruction whose operand is all digits, of value n, appends
\* the 16-bit zero-extended binary of n (bit 15 is 0; 32767 gives
\* 0111111111111111) when n <= 32767, and ends the run with the range error,
\* appending nothing, when n > 32767.  The table is neither read nor changed,
\* even when it holds a label of that digit-only name.
C6_NumericLiteral ==
  [][ (InSecondPass /\ IsLiteralRef(SecondPassLine)) =>
        LET n == int10(Operand(SecondPassLine))
        IN  /\ heap' = heap
            /\ next_var_address' = next_var_address
            /\ IF n <= 32767
               THEN /\ pc' = "second_pass"
                    /\ j' = j + 1
                    /\ ListLen(binary_lines') = ListLen(binary_lines) + 1
                    /\ IsBits16(ListAt(binary_lines', j))
                    /\ ListAt(binary_lines', j)[1] = "0"
                    /\ BinValue(ListAt(binary_lines', j)) = n
                    /\ n = 32767 =>
                         ListAt(binary_lines', j) =
                           <<"0">> \o [k \in 1..15 |-> "1"]
               ELSE /\ pc' = "idle"
                    /\ last' = ValueError(RangeMsg, <<Dec(n)>>)
                    /\ binary_lines' = binary_lines ]_vars

\* (7), @7, @32768: @7 emitted 7 although the label 7 is bound to 0, then
\* @32768 ended the run
C6_Witness ==
  /\ pc = "idle"
  /\ last = ValueError(RangeMsg, << <<"3", "2", "7", "6", "8">> >>)
  /\ <<"7">> \in DOMAIN Table
  /\ Table[<<"7">>] = 0
  /\ ListLen(binary_lines) = 1
  /\ BinValue(ListAt(binary_lines, 1)) = 7

\* C7 as stated: the range error is raised only for a numeric literal; a
\* symbol operand never ends the run with it.
C7_RangeErrorOnlyForLiterals ==
  (pc = "idle" /\ last.error = RangeMsg) => IsLiteralRef(SecondPassLine)

\* C7 amended: an address instruction whose operand is a symbol emits the
\* address the symbol is bound to as a 16-bit string when that address is at
\* most 32767 and ends the run with the range error, appending nothing, when
\* it is larger; the range error is raised only for a value above 32767, be it
\* a literal or a bound address.
C7_SymbolRange ==
  [][ /\ (InSecondPass /\ IsSymbolRef(SecondPassLine)) =>
           LET addr == heap'[symbol_table][Operand(SecondPassLine)]
           IN  IF addr <= 32767
               THEN /\ pc' = "second_pass"
                    /\ j' = j + 1
                    /\ ListLen(binary_lines') = ListLen(binary_lines) + 1
                    /\ IsBits16(ListAt(binary_lines', j))
                    /\ BinValue(ListAt(binary_lines', j)) = addr
               ELSE /\ pc' = "idle"
                    /\ last' = ValueError(RangeMsg, <<Dec(addr)>>)
                    /\ binary_lines' = binary_lines
      /\ (pc = "second_pass" /\ pc' = "idle" /\ last'.error = RangeMsg) =>
           /\ IsARef(SecondPassLine)
           /\ Operand(SecondPassLine) # <<>>
           /\ IF isdigit(Operand(SecondPassLine))
              THEN int10(Operand(SecondPassLine)) > 32767
              ELSE heap'[symbol_table][Operand(SecondPassLine)] > 32767 ]_vars

\* a reference to a label bound beyond 32767 ended the run
C7_Witness ==
  /\ pc = "idle"
  /\ last.error = RangeMsg
  /\ IsSymbolRef(SecondPassLine)
  /\ Table[Operand(SecondPassLine)] > 32767
  /\ last.args = <<Dec(Table[Operand(SecondPassLine)])>>

\* C8: the line emitted for a compute instruction has 16 characters: 111,
\* the COMP_TABLE code, the DEST_TABLE code, the JUMP_TABLE code; each slice
\* is the code of the parsed field and of no other key of its table, so
\* different (dest, comp, jump) give different lines.
C8_ComputeEncoding ==
  \A k \in Translated :
    ~IsARef(ListAt(no_labels, k)) =>
      LET p == parse_c_instruction(ListAt(no_labels, k))
          b == ListAt(binary_lines, k)
      IN  /\ p.dest \in DOMAIN DEST_TABLE
          /\ p.comp \in DOMAIN COMP_TABLE
          /\ p.jump \in DOMAIN JUMP_TABLE
          /\ Len(b) = 16
          /\ SubSeq(b, 1, 3) = <<"1", "1", "1">>
          /\ SubSeq(b, 4, 10) = COMP_TABLE[p.comp]
          /\ SubSeq(b, 11, 13) = DEST_TABLE[p.dest]
          /\ SubSeq(b, 14, 16) = JUMP_TABLE[p.jump]
          /\ {c \in DOMAIN COMP_TABLE : COMP_TABLE[c] = SubSeq(b, 4, 10)} = {p.comp}
          /\ {d \in DOMAIN DEST_TABLE : DEST_TABLE[d] = SubSeq(b, 11, 13)} = {p.dest}
          /\ {jm \in DOMAIN JUMP_TABLE : JUMP_TABLE[jm] = SubSeq(b, 14, 16)} = {p.jump}

\* "MD = D+1 ; JGT" was translated to 111 0011111 011 001
C8_Witness ==
  \E k \in Translated :
    /\ parse_c_instruction(ListAt(no_labels, k)) =
         [dest |-> <<"M", "D">>, comp |-> <<"D", "+", "1">>, jump |-> <<"J", "G", "T">>]
    /\ ListAt(no_labels, k) # CLine(<<"M", "D">>, <<"D", "+", "1">>, <<"J", "G", "T">>)
    /\ ListAt(binary_lines, k) =
         <<"1", "1", "1", "0", "0", "1", "1", "1", "1", "1", "0", "1", "1", "0", "0", "1">>

ErrorMessages ==
  {EmptyLabelMsg, DuplicateMsg, EmptyAddressMsg, RangeMsg, InvalidDestMsg,
   InvalidJumpMsg, InvalidCompMsg}

====
